---- MODULE Spec2Model ----
(***************************************************************************)
(* campus-mate-backend: the Flask chat backend of src/app.py together with *)
(* the seeding script src/setup_database.py.                               *)
(*                                                                         *)
(* Python strings are sequences of one-character strings; a Mongo document *)
(* is a function from field names to values; a Python list object lives in *)
(* `heap` and is referred to by its index, so that rebinding the global    *)
(* KNOWLEDGE_BASE and mutating a list are different things.                *)
(***************************************************************************)
EXTENDS Integers, Sequences, FiniteSets, TLC

(***************************************************************************)
(* Bounds of the model.                                                    *)
(***************************************************************************)
MaxQueryLen == 4      \* exhaustive queries: every string up to this length
MaxDocs == 6          \* ranking corpora: every arrangement up to this length
MaxThreads == 2       \* concurrent request threads of the server

(***************************************************************************)
(* Program constants.                                                      *)
(***************************************************************************)
TopK == 5             \* scored_results[:5]
DocBonus == 1         \* if k in doc_str: score += 1
TitleBonus == 5       \* if k in title: score += 5
StatusOK == 200
StatusError == 500

(***************************************************************************)
(* Strings.                                                                *)
(***************************************************************************)
\* str.lower() on one character
LowerChar(c) ==
  CASE c = "A" -> "a"
    [] c = "B" -> "b"
    [] c = "C" -> "c"
    [] c = "D" -> "d"
    [] c = "E" -> "e"
    [] c = "F" -> "f"
    [] c = "G" -> "g"
    [] c = "H" -> "h"
    [] c = "I" -> "i"
    [] c = "J" -> "j"
    [] c = "K" -> "k"
    [] c = "L" -> "l"
    [] c = "M" -> "m"
    [] c = "N" -> "n"
    [] c = "O" -> "o"
    [] c = "P" -> "p"
    [] c = "Q" -> "q"
    [] c = "R" -> "r"
    [] c = "S" -> "s"
    [] c = "T" -> "t"
    [] c = "U" -> "u"
    [] c = "V" -> "v"
    [] c = "W" -> "w"
    [] c = "X" -> "x"
    [] c = "Y" -> "y"
    [] c = "Z" -> "z"
    [] OTHER -> c

\* str.lower()
Lower(s) == [i \in 1..Len(s) |-> LowerChar(s[i])]

IsSpace(c) == c = " "

\* str.split(): the maximal runs of non-whitespace characters, in order
RECURSIVE SplitFrom(_, _, _)
SplitFrom(s, i, cur) ==
  IF i > Len(s)
    THEN (IF cur = <<>> THEN <<>> ELSE <<cur>>)
    ELSE IF IsSpace(s[i])
      THEN (IF cur = <<>> THEN <<>> ELSE <<cur>>) \o SplitFrom(s, i + 1, <<>>)
      ELSE SplitFrom(s, i + 1, Append(cur, s[i]))

Split(s) == SplitFrom(s, 1, <<>>)

\* Python's `needle in hay` on strings
Contains(needle, hay) ==
  \E i \in 0..(Len(hay) - Len(needle)) :
    \A j \in 1..Len(needle) : hay[i + j] = needle[j]

RECURSIVE Join(_, _)
Join(sep, parts) ==
  IF parts = <<>> THEN <<>>
  ELSE IF Len(parts) = 1 THEN parts[1]
  ELSE parts[1] \o sep \o Join(sep, Tail(parts))

(***************************************************************************)
(* Documents: dict access and str(doc).                                    *)
(***************************************************************************)
K_id == <<"_","i","d">>
K_title == <<"t","i","t","l","e">>
K_details == <<"d","e","t","a","i","l","s">>
K_text == <<"t","e","x","t","_","f","o","r","_","a","i">>
NA == <<"N","/","A">>

\* dict.get(key, default)
DocGet(doc, key, default) == IF key \in DOMAIN doc THEN doc[key] ELSE default

Digit(n) == <<"0","1","2","3","4","5","6","7","8","9">>[n + 1]

\* repr of a str value (no quote or escape characters occur in the corpora)
ReprStr(s) == <<"'">> \o s \o <<"'">>

\* repr of a bson ObjectId
ReprId(n) == <<"O","b","j","e","c","t","I","d","(","'">> \o <<Digit(n)>> \o <<"'",")">>

\* repr of the details mapping, a sequence of <<key, value>> string pairs
ReprDetails(d) ==
  <<"{">> \o Join(<<",", " ">>,
                  [i \in 1..Len(d) |-> ReprStr(d[i][1]) \o <<":", " ">> \o ReprStr(d[i][2])])
         \o <<"}">>

\* the fields of a document in stored order
DocItems(doc) ==
  (IF "_id" \in DOMAIN doc
     THEN <<ReprStr(K_id) \o <<":", " ">> \o ReprId(doc["_id"])>> ELSE <<>>)
  \o (IF "title" \in DOMAIN doc
     THEN <<ReprStr(K_title) \o <<":", " ">> \o ReprStr(doc["title"])>> ELSE <<>>)
  \o (IF "details" \in DOMAIN doc
     THEN <<ReprStr(K_details) \o <<":", " ">> \o ReprDetails(doc["details"])>> ELSE <<>>)
  \o (IF "text_for_ai" \in DOMAIN doc
     THEN <<ReprStr(K_text) \o <<":", " ">> \o ReprStr(doc["text_for_ai"])>> ELSE <<>>)

\* str(doc)
StrDoc(doc) == <<"{">> \o Join(<<",", " ">>, DocItems(doc)) \o <<"}">>

(***************************************************************************)
(* deep_search, the pure parts.                                            *)
(***************************************************************************)
\* variant: tokens of two characters are kept, len(w) >= 2
KeywordsFromTwo(query) ==
  LET ws == Split(query)
      kept == SelectSeq(ws, LAMBDA w : Len(w) >= 2)
  IN [i \in 1..Len(kept) |-> Lower(kept[i])]

\* keywords = [w.lower() for w in query.split() if len(w) > 2]
Keywords(query) ==
  LET ws == Split(query)
      kept == SelectSeq(ws, LAMBDA w : Len(w) > 2)
  IN [i \in 1..Len(kept) |-> Lower(kept[i])]

\* the body of `for k in keywords`, folded over the keywords in order
RECURSIVE ScoreLoop(_, _, _, _)
ScoreLoop(doc_str, title, keywords, score) ==
  IF keywords = <<>> THEN score
  ELSE LET k == Head(keywords)
           s1 == IF Contains(k, doc_str) THEN score + DocBonus ELSE score
           s2 == IF Contains(k, title) THEN s1 + TitleBonus ELSE s1
       IN ScoreLoop(doc_str, title, Tail(keywords), s2)

\* variant: the title is matched without lower-casing it
ScoreDocRawTitle(doc, keywords) ==
  ScoreLoop(Lower(StrDoc(doc)), DocGet(doc, "title", <<>>), keywords, 0)

\* the score one iteration of `for doc in KNOWLEDGE_BASE` computes
ScoreDoc(doc, keywords) ==
  ScoreLoop(Lower(StrDoc(doc)), Lower(DocGet(doc, "title", <<>>)), keywords, 0)

\* if score > 0: scored_results.append((score, doc))
AppendScored(scored_results, doc, keywords) ==
  LET score == ScoreDoc(doc, keywords)
  IN IF score > 0 THEN Append(scored_results, <<score, doc>>) ELSE scored_results

\* variant: a descending sort that puts a later record before its equals
RECURSIVE InsertDescBeforeEquals(_, _)
InsertDescBeforeEquals(sorted, item) ==
  IF sorted = <<>> THEN <<item>>
  ELSE IF Head(sorted)[1] > item[1]
    THEN <<Head(sorted)>> \o InsertDescBeforeEquals(Tail(sorted), item)
    ELSE <<item>> \o sorted

\* list.sort(key=lambda x: x[0], reverse=True): stable, descending by score
RECURSIVE InsertDesc(_, _)
InsertDesc(sorted, item) ==
  IF sorted = <<>> THEN <<item>>
  ELSE IF Head(sorted)[1] >= item[1]
    THEN <<Head(sorted)>> \o InsertDesc(Tail(sorted), item)
    ELSE <<item>> \o sorted

RECURSIVE SortDesc(_)
SortDesc(items) ==
  IF items = <<>> THEN <<>>
  ELSE InsertDesc(SortDesc(SubSeq(items, 1, Len(items) - 1)), items[Len(items)])

\* top_docs = [item[1] for item in scored_results[:5]]
TopDocs(sorted) ==
  [i \in 1..(IF Len(sorted) < TopK THEN Len(sorted) ELSE TopK) |-> sorted[i][2]]

\* context_text: one block per top document, numbered from 1
RenderContext(top_docs) ==
  [i \in 1..Len(top_docs) |->
     [source |-> i,
      title |-> DocGet(top_docs[i], "title", NA),
      details |-> DocGet(top_docs[i], "details", <<>>),
      summary |-> DocGet(top_docs[i], "text_for_ai", <<>>)]]

\* context.strip() is truthy: every block holds non-blank text
ContextTruthy(context) == Len(context) > 0

(***************************************************************************)
(* Inputs: corpora held by the knowledge_base collection, chat messages    *)
(* and attachments.                                                        *)
(***************************************************************************)
MkDoc(id, title, text) ==
  ("_id" :> id) @@ ("title" :> title) @@ ("text_for_ai" :> text)

\* a record stored without a title
MkUntitled(id, text) == ("_id" :> id) @@ ("text_for_ai" :> text)

\* a record with a details mapping
MkDetailed(id, title, details, text) ==
  ("_id" :> id) @@ ("title" :> title) @@ ("details" :> details) @@ ("text_for_ai" :> text)

Q_library == <<"l","i","b","r","a","r","y">>
Q_hi == <<"h","i">>
Q_aab == <<"a","a","B">>
Q_aab_bab == <<"a","a","b"," ","B","a","b">>
Q_aab_aab == <<"a","a","b"," "," ","A","A","B">>

\* corpus of two records: a title match and a body-only match for "library"
LibraryCorpus ==
  << MkDoc(1, <<"L","i","b","r","a","r","y"," ","H","o","u","r","s">>,
              <<"9","a","m","-","9","p","m">>),
     MkDoc(2, <<"A","d","m","i","s","s","i","o","n">>,
              <<"l","i","b","r","a","r","y"," ","d","e","a","d","l","i","n","e"," ","J","u","n","e">>) >>

\* a later edition of the corpus, with other records
LibraryCorpus2 ==
  << MkDetailed(3, <<"H","o","s","t","e","l">>,
                   << <<"r","o","o","m">> , <<"l","i","b","r","a","r","y"," ","w","i","n","g">> >> ,
                   <<"f","e","e","s">>),
     MkDoc(4, <<"N","e","w"," ","L","I","B","R","A","R","Y">>, <<"o","p","e","n">>),
     MkUntitled(5, <<"b","u","s">>) >>

ServerCorpora == {LibraryCorpus, LibraryCorpus2}

ServerMessages == {Q_hi, Q_library}

ServerFiles == {"none"}

\* request field `file`: absent, {}, a dict without data, a dict with data
FileKinds == {"none", "empty", "meta", "blob"}

\* truthiness of file_data
Truthy(file_data) == file_data \in {"meta", "blob"}

\* file_data.get('data') is truthy
HasData(file_data) == file_data = "blob"

DefaultMessage ==
  <<"A","n","a","l","y","z","e"," ","t","h","i","s"," ","i","m","a","g","e","/",
    "d","o","c","u","m","e","n","t"," ","a","n","d"," ","t","e","l","l"," ","m","e",
    " ","w","h","a","t"," ","i","t"," ","i","s"," ","a","b","o","u","t",".">>

\* the three kinds of record the ranking corpora are built from
RankDoc(kind, id) ==
  CASE kind = "T" -> MkDoc(id, <<"a","a","B">>, <<"x">>)
    [] kind = "X" -> MkDoc(id, <<"B","a","b">>, <<"A","a","b">>)
    [] OTHER -> MkUntitled(id, <<"a","b">>)

RankKinds == {"T", "X", "N"}

\* every arrangement of up to MaxDocs records of the three kinds
OrderCorpora ==
  UNION { { [i \in 1..n |-> RankDoc(ks[i], i)] : ks \in [1..n -> RankKinds] } : n \in 0..MaxDocs }

SmallCorpora ==
  { <<>>, LibraryCorpus,
    << RankDoc("X", 1), RankDoc("T", 2), RankDoc("N", 3) >>,
    << MkDetailed(1, <<"B">>, << <<"a","a">>, <<"b","a","B","a">> >>, <<"a"," ","a","b">>) >> }

QueryChars == {"a", "B", " "}

\* every string over QueryChars up to MaxQueryLen, and a few longer queries
AllQueries ==
  UNION { [1..n -> QueryChars] : n \in 0..MaxQueryLen }
    \cup {Q_library, Q_aab_bab, Q_aab_aab}

KeyQueries == {Q_aab, Q_aab_bab}

RankCorpora == OrderCorpora \cup SmallCorpora

\* the requests tried against a corpus under SpecRank: every query and kind
\* of attachment on the small corpora, the key queries on the arrangements
RankRequests(corpus) ==
  IF corpus \in SmallCorpora
    THEN AllQueries \X FileKinds
    ELSE KeyQueries \X {"none"}

\* the credentials the process is configured with: GOOGLE_API_KEY alone
credentials == <<"GOOGLE_API_KEY">>

\* what one call of generate_content can do
Outcomes == {"ok", "quota", "fatal"}

(***************************************************************************)
(* State.                                                                  *)
(***************************************************************************)
VARIABLES
  db_kb,            \* the documents of db['knowledge_base'], in cursor order
  seed_pc,          \* position of the seeding script
  heap,             \* the list objects created so far
  KNOWLEDGE_BASE,   \* the global: index in heap of the list it is bound to
  booted,           \* the module-level reload_kb_data() has run
  configured_key,   \* the key genai is configured with
  configure_calls,  \* calls of genai.configure so far
  loaded,           \* history: the complete results of list(cursor) so far
  th                \* request threads

vars == <<db_kb, seed_pc, heap, KNOWLEDGE_BASE, booted, configured_key,
          configure_calls, loaded, th>>

Threads == 1..MaxThreads

IdleThread ==
  [pc |-> "idle", message |-> <<>>, user_message |-> <<>>, file_data |-> "none",
   prompt_parts |-> <<>>, keywords |-> <<>>, kb_check |-> 0, kb_iter |-> 0, idx |-> 0,
   scored_results |-> <<>>, seen |-> <<>>, context |-> <<>>,
   attempts |-> 0, errors |-> <<>>, fetched |-> 0, success |-> FALSE,
   status |-> 0, body |-> "none", count |-> 0,
   route |-> "none", top_docs |-> <<>>]

\* the state after lines 30-62 of app.py: genai configured, KNOWLEDGE_BASE = []
InitWith(corpora) ==
  /\ db_kb \in corpora
  /\ seed_pc = "idle"
  /\ heap = << <<>> >>
  /\ KNOWLEDGE_BASE = 1
  /\ booted = FALSE
  /\ configured_key = credentials[1]
  /\ configure_calls = 1
  /\ loaded = {}
  /\ th = [t \in Threads |-> IdleThread]

Init == InitWith(ServerCorpora)

InitRank == InitWith(RankCorpora)

(***************************************************************************)
(* reload_kb_data.  list(cursor) builds a new list object; the global is   *)
(* rebound to it by one assignment.  An exception anywhere in the try      *)
(* block reaches the handler, which rebinds the global to a new empty list.*)
(***************************************************************************)
\* the list object list(cursor) returns for the documents the cursor yields
FetchedList(docs) == docs

\* module level, line 96: reload_kb_data() succeeds
StartupReloadOK ==
  /\ ~booted
  /\ heap' = Append(heap, FetchedList(db_kb))
  /\ KNOWLEDGE_BASE' = Len(heap) + 1
  /\ loaded' = loaded \cup {db_kb}
  /\ booted' = TRUE
  /\ UNCHANGED <<db_kb, seed_pc, configured_key, configure_calls, th>>

\* module level, line 96: reload_kb_data() catches an exception
StartupReloadFail ==
  /\ ~booted
  /\ heap' = Append(heap, <<>>)
  /\ KNOWLEDGE_BASE' = Len(heap) + 1
  /\ booted' = TRUE
  /\ UNCHANGED <<db_kb, seed_pc, configured_key, configure_calls, loaded, th>>

\* POST /reload, lines 74-78 right-hand side: the fetch completes
ReloadFetch(t) ==
  /\ booted
  /\ th[t].pc = "idle"
  /\ heap' = Append(heap, FetchedList(db_kb))
  /\ loaded' = loaded \cup {db_kb}
  /\ th' = [th EXCEPT ![t] = [@ EXCEPT !.pc = "rl_publish", !.route = "/reload",
                                       !.fetched = Len(heap) + 1]]
  /\ UNCHANGED <<db_kb, seed_pc, KNOWLEDGE_BASE, booted, configured_key,
                 configure_calls>>

\* variant: the global's list is overwritten in place, KNOWLEDGE_BASE[:] = <fetched>
ReloadPublishInPlace(t) ==
  /\ th[t].pc = "rl_publish"
  /\ heap' = [heap EXCEPT ![KNOWLEDGE_BASE] = heap[th[t].fetched]]
  /\ th' = [th EXCEPT ![t] = [@ EXCEPT !.pc = "rl_respond", !.success = TRUE]]
  /\ UNCHANGED <<db_kb, seed_pc, KNOWLEDGE_BASE, booted, configured_key, configure_calls,
                 loaded>>

\* line 78, the assignment: KNOWLEDGE_BASE = <the fetched list>; return True
ReloadPublish(t) ==
  /\ th[t].pc = "rl_publish"
  /\ KNOWLEDGE_BASE' = th[t].fetched
  /\ th' = [th EXCEPT ![t] = [@ EXCEPT !.pc = "rl_respond", !.success = TRUE]]
  /\ UNCHANGED <<db_kb, seed_pc, heap, booted, configured_key, configure_calls,
                 loaded>>

\* lines 84-90 and 162: the fetch raised; KNOWLEDGE_BASE = []; return False; 500
ReloadExcept(t) ==
  /\ booted
  /\ th[t].pc = "idle"
  /\ heap' = Append(heap, <<>>)
  /\ KNOWLEDGE_BASE' = Len(heap) + 1
  /\ th' = [th EXCEPT ![t] = [@ EXCEPT !.pc = "done", !.route = "/reload",
                                       !.success = FALSE,
                                       !.status = StatusError, !.body = "error"]]
  /\ UNCHANGED <<db_kb, seed_pc, booted, configured_key, configure_calls, loaded>>

\* reload_data, lines 158-160: the response reads len(KNOWLEDGE_BASE)
ReloadRespond(t) ==
  /\ th[t].pc = "rl_respond"
  /\ th' = [th EXCEPT ![t] = [@ EXCEPT !.pc = "done", !.status = StatusOK,
                                       !.body = "reloaded",
                                       !.count = Len(heap[KNOWLEDGE_BASE])]]
  /\ UNCHANGED <<db_kb, seed_pc, heap, KNOWLEDGE_BASE, booted, configured_key,
                 configure_calls, loaded>>

(***************************************************************************)
(* setup_database.seed_database: delete_many({}), then insert_many(data).  *)
(***************************************************************************)
SeedClear ==
  /\ seed_pc = "idle"
  /\ db_kb' = <<>>
  /\ seed_pc' = "cleared"
  /\ UNCHANGED <<heap, KNOWLEDGE_BASE, booted, configured_key, configure_calls,
                 loaded, th>>

SeedInsert(data) ==
  /\ seed_pc = "cleared"
  /\ db_kb' = data
  /\ seed_pc' = "idle"
  /\ UNCHANGED <<heap, KNOWLEDGE_BASE, booted, configured_key, configure_calls, loaded, th>>

\* the JSON file cannot be read, or does not hold a list
SeedLoadError ==
  /\ seed_pc = "cleared"
  /\ seed_pc' = "idle"
  /\ UNCHANGED <<db_kb, heap, KNOWLEDGE_BASE, booted, configured_key, configure_calls,
                 loaded, th>>

(***************************************************************************)
(* chat and deep_search, one action per access to shared state: the two    *)
(* reads of the global KNOWLEDGE_BASE, each step of the iteration over the *)
(* list, and the call of the generation service.  What a thread computes   *)
(* on its own between two such accesses belongs to the action before it.   *)
(***************************************************************************)
BlobPart == [kind |-> "blob", context |-> <<>>, question |-> <<>>]

\* lines 186-214: the attachment, when it carries data, is the first part
FileParts(file_data) ==
  IF Truthy(file_data) /\ HasData(file_data) THEN <<BlobPart>> ELSE <<>>

\* lines 218-220: the message deep_search and the prompt are given
UserMessage(msg, file_data) ==
  IF msg = <<>> /\ Truthy(file_data) THEN DefaultMessage ELSE msg

\* variant: the attachment is not consulted, `if context.strip():`
PromptPartAnyFile(context, file_data, user_message) ==
  IF ContextTruthy(context)
    THEN [kind |-> "context_only", context |-> context, question |-> user_message]
    ELSE [kind |-> "general", context |-> <<>>, question |-> user_message]

\* lines 228-266: which prompt is appended
PromptPart(context, file_data, user_message) ==
  IF ContextTruthy(context) /\ ~Truthy(file_data)
    THEN [kind |-> "context_only", context |-> context, question |-> user_message]
    ELSE [kind |-> "general", context |-> <<>>, question |-> user_message]

\* lines 104-108: deep_search returns "" before it scores anything
EarlyReturn(kb, keywords) == kb = <<>> \/ keywords = <<>>

\* lines 170-220, then deep_search lines 104-108: the emptiness test reads the
\* global; on an early return the prompt of lines 228-266 follows
ChatStart(t, msg, file) ==
  /\ booted
  /\ th[t].pc = "idle"
  /\ LET um == UserMessage(msg, file)
         kw == Keywords(um)
         early == EarlyReturn(heap[KNOWLEDGE_BASE], kw)
     IN th' = [th EXCEPT ![t] =
                 [@ EXCEPT !.route = "/chat",
                           !.message = msg,
                           !.file_data = file,
                           !.user_message = um,
                           !.kb_check = KNOWLEDGE_BASE,
                           !.keywords = kw,
                           !.context = <<>>,
                           !.prompt_parts =
                               IF early
                                 THEN Append(FileParts(file), PromptPart(<<>>, file, um))
                                 ELSE FileParts(file),
                           !.pc = IF early THEN "generate" ELSE "ds_iter"]]
  /\ UNCHANGED <<db_kb, seed_pc, heap, KNOWLEDGE_BASE, booted, configured_key,
                 configure_calls, loaded>>

\* line 112: `for doc in KNOWLEDGE_BASE` reads the global and takes an iterator
DsIter(t) ==
  /\ th[t].pc = "ds_iter"
  /\ th' = [th EXCEPT ![t] =
              [@ EXCEPT !.kb_iter = KNOWLEDGE_BASE, !.idx = 0, !.pc = "ds_score"]]
  /\ UNCHANGED <<db_kb, seed_pc, heap, KNOWLEDGE_BASE, booted, configured_key,
                 configure_calls, loaded>>

\* lines 112-126: the iterator yields the next document, which is scored
DsScore(t) ==
  /\ th[t].pc = "ds_score"
  /\ th[t].idx < Len(heap[th[t].kb_iter])
  /\ LET doc == heap[th[t].kb_iter][th[t].idx + 1]
     IN th' = [th EXCEPT ![t] =
                 [@ EXCEPT !.idx = @ + 1,
                           !.seen = Append(@, doc),
                           !.scored_results = AppendScored(@, doc, th[t].keywords)]]
  /\ UNCHANGED <<db_kb, seed_pc, heap, KNOWLEDGE_BASE, booted, configured_key,
                 configure_calls, loaded>>

\* lines 128-138: the iterator is exhausted; sort, cut, render; then the
\* prompt of lines 228-266
DsFinish(t) ==
  /\ th[t].pc = "ds_score"
  /\ th[t].idx >= Len(heap[th[t].kb_iter])
  /\ LET sorted == SortDesc(th[t].scored_results)
         context_text == RenderContext(TopDocs(sorted))
     IN th' = [th EXCEPT ![t] =
                 [@ EXCEPT !.scored_results = sorted,
                           !.top_docs = TopDocs(sorted),
                           !.context = context_text,
                           !.prompt_parts =
                               Append(@, PromptPart(context_text, th[t].file_data,
                                                    th[t].user_message)),
                           !.pc = "generate"]]
  /\ UNCHANGED <<db_kb, seed_pc, heap, KNOWLEDGE_BASE, booted, configured_key,
                 configure_calls, loaded>>

\* variant: a failed call reconfigures the key and is tried once more
ChatGenerateRetry(t, outcome) ==
  /\ th[t].pc = "generate"
  /\ LET again == outcome # "ok" /\ th[t].attempts = 0
     IN /\ th' = [th EXCEPT ![t] =
                    [@ EXCEPT !.attempts = @ + 1,
                              !.errors = IF outcome = "ok" THEN @ ELSE Append(@, outcome),
                              !.status = IF again THEN @
                                         ELSE IF outcome = "ok" THEN StatusOK ELSE StatusError,
                              !.body = IF again THEN @
                                       ELSE IF outcome = "ok" THEN "response" ELSE "error",
                              !.pc = IF again THEN "generate" ELSE "done"]]
        /\ configure_calls' = IF again THEN configure_calls + 1 ELSE configure_calls
  /\ UNCHANGED <<db_kb, seed_pc, heap, KNOWLEDGE_BASE, booted, configured_key, loaded>>

\* lines 270-282: one call of generate_content, then the response
ChatGenerate(t, outcome) ==
  /\ th[t].pc = "generate"
  /\ th' = [th EXCEPT ![t] =
              [@ EXCEPT !.attempts = @ + 1,
                        !.errors = IF outcome = "ok" THEN @ ELSE Append(@, outcome),
                        !.status = IF outcome = "ok" THEN StatusOK ELSE StatusError,
                        !.body = IF outcome = "ok" THEN "response" ELSE "error",
                        !.pc = "done"]]
  /\ UNCHANGED <<db_kb, seed_pc, heap, KNOWLEDGE_BASE, booted, configured_key,
                 configure_calls, loaded>>

(***************************************************************************)
(* Specifications.                                                         *)
(***************************************************************************)
\* the server under concurrent chat and reload requests, and the seeding script
Next ==
  \/ StartupReloadOK
  \/ StartupReloadFail
  \/ SeedClear
  \/ \E data \in ServerCorpora : SeedInsert(data)
  \/ SeedLoadError
  \/ \E t \in Threads : ReloadFetch(t)
  \/ \E t \in Threads : ReloadPublish(t)
  \/ \E t \in Threads : ReloadExcept(t)
  \/ \E t \in Threads : ReloadRespond(t)
  \/ \E t \in Threads, msg \in ServerMessages, file \in ServerFiles : ChatStart(t, msg, file)
  \/ \E t \in Threads : DsIter(t)
  \/ \E t \in Threads : DsScore(t)
  \/ \E t \in Threads : DsFinish(t)
  \/ \E t \in Threads, outcome \in Outcomes : ChatGenerate(t, outcome)

Spec == Init /\ [][Next]_vars

\* one chat request at a time against a loaded corpus: deep_search as a function
NextRank ==
  \/ StartupReloadOK
  \/ StartupReloadFail
  \/ \E r \in RankRequests(db_kb) : ChatStart(1, r[1], r[2])
  \/ DsIter(1)
  \/ DsScore(1)
  \/ DsFinish(1)
  \/ \E outcome \in Outcomes : ChatGenerate(1, outcome)

SpecRank == InitRank /\ [][NextRank]_vars

(***************************************************************************)
(* Vocabulary of the properties, stated without the operators of the model *)
(* of deep_search.                                                         *)
(***************************************************************************)
Min(a, b) == IF a < b THEN a ELSE b

\* the elements of a sequence
Range(s) == {s[i] : i \in 1..Len(s)}

\* the position of a document in a corpus whose documents are distinct
PosIn(kb, doc) == CHOOSE i \in 1..Len(kb) : kb[i] = doc

\* the maximal runs of non-blank characters of q, as <<first, last>> positions
TokenSpans(q) ==
  { sp \in (1..Len(q)) \X (1..Len(q)) :
      /\ sp[1] <= sp[2]
      /\ \A i \in sp[1]..sp[2] : q[i] # " "
      /\ (sp[1] = 1 \/ q[sp[1] - 1] = " ")
      /\ (sp[2] = Len(q) \/ q[sp[2] + 1] = " ") }

\* the kept tokens: runs longer than two characters
KeptSpans(q) == { sp \in TokenSpans(q) : sp[2] - sp[1] + 1 > 2 }

TokenAt(q, sp) == Lower(SubSeq(q, sp[1], sp[2]))

\* the relevance score: 1 per kept token found in the lower-cased full text
\* of the record, plus 5 per kept token found in its lower-cased title
Relevance(doc, q) ==
  LET text == Lower(StrDoc(doc))
      title == Lower(IF "title" \in DOMAIN doc THEN doc["title"] ELSE <<>>)
  IN   Cardinality({ sp \in KeptSpans(q) : Contains(TokenAt(q, sp), text) })
     + 5 * Cardinality({ sp \in KeptSpans(q) : Contains(TokenAt(q, sp), title) })

\* the relevance of each document of a corpus, in corpus order
RECURSIVE RelevanceSeq(_, _)
RelevanceSeq(kb, q) ==
  IF kb = <<>> THEN <<>>
  ELSE Append(RelevanceSeq(SubSeq(kb, 1, Len(kb) - 1), q), Relevance(kb[Len(kb)], q))

\* the title of a document as the scoring reads it
TitleText(d) == Lower(IF "title" \in DOMAIN d THEN d["title"] ELSE <<>>)

\* for each document of a corpus: whether its title holds every kept token,
\* and whether its body holds every kept token and its title none
RECURSIVE TitleFacts(_, _)
TitleFacts(kb, q) ==
  IF kb = <<>> THEN <<>>
  ELSE LET d == kb[Len(kb)]
           title == TitleText(d)
           text == Lower(StrDoc(d))
           toks == { TokenAt(q, sp) : sp \in KeptSpans(q) }
       IN Append(TitleFacts(SubSeq(kb, 1, Len(kb) - 1), q),
                 [inTitle |-> \A k \in toks : Contains(k, title),
                  bodyOnly |-> \A k \in toks : ~Contains(k, title) /\ Contains(k, text)])

\* for each document of a corpus, the score scored_results holds for it, or 0
RECURSIVE GivenScores(_, _)
GivenScores(kb, scored) ==
  IF kb = <<>> THEN <<>>
  ELSE LET d == kb[Len(kb)]
           hits == { i \in 1..Len(scored) : scored[i][2] = d }
       IN Append(GivenScores(SubSeq(kb, 1, Len(kb) - 1), scored),
                 IF hits = {} THEN 0 ELSE scored[CHOOSE i \in hits : TRUE][1])

\* every whitespace-separated token of q has at most two characters
AllShort(q) ==
  \A i \in 1..(Len(q) - 2) : q[i] = " " \/ q[i + 1] = " " \/ q[i + 2] = " "

\* the request carries an attachment
HasAttachment(t) == th[t].file_data \in {"meta", "blob"}

\* thread t is a chat request whose deep_search has returned
Searched(t) == th[t].route = "/chat" /\ th[t].pc \in {"generate", "done"}

\* thread t is a chat request whose deep_search went through the scoring loop
Scored(t) == Searched(t) /\ th[t].kb_iter # 0

\* the list thread t iterated
IteratedKB(t) == heap[th[t].kb_iter]

\* the prompt thread t built
PromptOf(t) == th[t].prompt_parts[Len(th[t].prompt_parts)]

\* the snapshots reload_kb_data has ever had to publish: the complete fetches,
\* and the empty list of line 62 and of the exception handler
Snapshots == loaded \cup {<<>>}

(***************************************************************************)
(* The knowledge base under reload.                                        *)
(***************************************************************************)
\* C1: a reload that fails while fetching reports failure and leaves the
\* knowledge base holding exactly the non-empty set of records it held before.
C1_FailedReloadKeepsSnapshot ==
  [][ \A t \in Threads :
        (ReloadExcept(t) /\ heap[KNOWLEDGE_BASE] # <<>>)
          => /\ th'[t].status = StatusError
             /\ heap'[KNOWLEDGE_BASE'] = heap[KNOWLEDGE_BASE] ]_vars

\* C2: the records one deep_search scores and renders are drawn from one
\* snapshot: while it iterates it has seen a prefix of one complete snapshot,
\* and when it returns it has seen exactly that snapshot, and every record it
\* scored or rendered belongs to it.
C2_SearchReadsOneSnapshot ==
  \A t \in Threads :
    /\ (th[t].pc = "ds_score") =>
         \E s \in Snapshots :
           th[t].idx <= Len(s) /\ th[t].seen = SubSeq(s, 1, th[t].idx)
    /\ Scored(t) =>
         \E s \in Snapshots :
           /\ th[t].seen = s
           /\ \A i \in 1..Len(th[t].scored_results) : th[t].scored_results[i][2] \in Range(s)
           /\ Range(th[t].top_docs) \subseteq Range(s)
           /\ th[t].context = RenderContext(th[t].top_docs)

\* C2 witness: a search that began on one snapshot returned records of the
\* snapshot a reload published while the search was in flight.
C2_Witness ==
  \E t \in Threads :
    /\ Scored(t)
    /\ th[t].kb_iter # th[t].kb_check
    /\ heap[th[t].kb_check] # <<>>
    /\ heap[th[t].kb_iter] # heap[th[t].kb_check]
    /\ Len(th[t].top_docs) >= 2

\* C3: within one chat request the list deep_search tests for emptiness is
\* the list it iterates.
C3_StableReference ==
  \A t \in Threads :
    (th[t].route = "/chat" /\ th[t].kb_iter # 0) => th[t].kb_iter = th[t].kb_check

(***************************************************************************)
(* Ranking.                                                                *)
(***************************************************************************)
\* C4: deep_search renders at most 5 records, in order of non-increasing
\* relevance; rendered records of equal relevance keep their order in the
\* knowledge base; no record left out is more relevant than a rendered one,
\* and none of equal relevance that comes earlier in the knowledge base.
C4_TopFiveStableOrder ==
  \A t \in Threads :
    Scored(t) =>
      LET kb == IteratedKB(t)
          q == th[t].user_message
          top == th[t].top_docs
          rel == RelevanceSeq(kb, q)
          relevant == { i \in 1..Len(kb) : rel[i] > 0 }
          pos == [i \in 1..Len(top) |-> PosIn(kb, top[i])]
      IN /\ Len(top) <= 5
         /\ Len(top) = Min(5, Cardinality(relevant))
         /\ Len(th[t].context) = Len(top)
         /\ \A i \in 1..Len(top) :
              /\ top[i] \in Range(kb)
              /\ th[t].context[i].source = i
              /\ th[t].context[i].title = (IF "title" \in DOMAIN top[i] THEN top[i]["title"] ELSE NA)
              /\ th[t].context[i].summary = top[i]["text_for_ai"]
         /\ \A i, j \in 1..Len(top) :
              i < j =>
                /\ rel[pos[i]] >= rel[pos[j]]
                /\ rel[pos[i]] = rel[pos[j]] => pos[i] < pos[j]
         /\ \A k \in relevant :
              kb[k] \notin Range(top) =>
                \A i \in 1..Len(top) :
                  /\ rel[k] <= rel[pos[i]]
                  /\ rel[k] = rel[pos[i]] => pos[i] < k

\* C4 witness: more than five relevant records, and among the five rendered
\* a record that precedes a less relevant one it follows in the knowledge
\* base, and two of equal relevance.
C4_Witness ==
  \E t \in Threads :
    /\ Scored(t)
    /\ th[t].pc = "done"
    /\ Len(th[t].top_docs) = 5
    /\ Cardinality({ i \in 1..Len(IteratedKB(t)) :
                       Relevance(IteratedKB(t)[i], th[t].user_message) > 0 }) > 5
    /\ \E i, j \in 1..5 :
         /\ i < j
         /\ PosIn(IteratedKB(t), th[t].top_docs[i]) > PosIn(IteratedKB(t), th[t].top_docs[j])
    /\ \E i, j \in 1..5 :
         /\ i < j
         /\ Relevance(th[t].top_docs[i], th[t].user_message)
              = Relevance(th[t].top_docs[j], th[t].user_message)

\* C5: the score deep_search gives a record is 1 per kept token found in the
\* lower-cased full text plus 5 per kept token found in the lower-cased
\* title; a record whose title holds every kept token scores at least 5 more
\* than one that holds them in its body only; for the query "library" the
\* title match scores 6 and the body-only match 1; a record scoring 0 is
\* never rendered.
C5_ScoreFormula ==
  \A t \in Threads :
    Scored(t) =>
      LET kb == IteratedKB(t)
          q == th[t].user_message
          scored == th[t].scored_results
          rel == RelevanceSeq(kb, q)
          given == GivenScores(kb, scored)
          facts == TitleFacts(kb, q)
      IN /\ given = rel
         /\ \A i \in 1..Len(scored) : scored[i][1] > 0 /\ scored[i][2] \in Range(kb)
         /\ \A i \in 1..Len(th[t].top_docs) : given[PosIn(kb, th[t].top_docs[i])] > 0
         /\ \A i, j \in 1..Len(kb) :
              (facts[i].inTitle /\ facts[j].bodyOnly) => given[i] >= given[j] + 5
         /\ (q = Q_library /\ kb = LibraryCorpus) =>
              scored = << <<6, LibraryCorpus[1]>>, <<1, LibraryCorpus[2]>> >>

\* C5 witness: the query "library" answered against the two-record corpus.
C5_Witness ==
  \E t \in Threads :
    /\ Scored(t)
    /\ th[t].pc = "done"
    /\ th[t].user_message = Q_library
    /\ IteratedKB(t) = LibraryCorpus
    /\ Len(th[t].context) = 2

\* C6: a query all of whose tokens have at most two characters gets an empty
\* context whatever the knowledge base holds, and its chat request sends the
\* general prompt.
C6_ShortTokensEmptyContext ==
  \A t \in Threads :
    (th[t].route = "/chat" /\ AllShort(th[t].user_message)) =>
      /\ Searched(t)
      /\ th[t].kb_iter = 0
      /\ th[t].context = <<>>
      /\ PromptOf(t).kind = "general"
      /\ PromptOf(t).context = <<>>

\* C6 witness: a non-empty query of short tokens against a non-empty
\* knowledge base.
C6_Witness ==
  \E t \in Threads :
    /\ th[t].route = "/chat"
    /\ th[t].pc = "done"
    /\ AllShort(th[t].user_message)
    /\ Cardinality(TokenSpans(th[t].user_message)) = 2
    /\ heap[th[t].kb_check] # <<>>

\* C7: the prompt sent is the context-constrained one exactly when the
\* request carries no attachment and its retrieval context is not empty;
\* otherwise it is the general one, and holds no retrieval context.
C7_PromptChoice ==
  \A t \in Threads :
    Searched(t) =>
      /\ PromptOf(t).kind \in {"context_only", "general"}
      /\ PromptOf(t).kind = "context_only" <=> (~HasAttachment(t) /\ th[t].context # <<>>)
      /\ PromptOf(t).kind = "context_only" => PromptOf(t).context = th[t].context
      /\ PromptOf(t).kind = "general" => PromptOf(t).context = <<>>
      /\ PromptOf(t).question = th[t].user_message

\* C7 witness: a request with an attachment whose message has a non-empty
\* retrieval context, sent with the general prompt.
C7_Witness ==
  \E t \in Threads :
    /\ Searched(t)
    /\ th[t].pc = "done"
    /\ HasAttachment(t)
    /\ th[t].context # <<>>
    /\ PromptOf(t).kind = "general"

(***************************************************************************)
(* Generation.                                                             *)
(***************************************************************************)
\* thread t is a chat request whose every generation attempt so far failed
\* with a quota error
AllQuota(t) ==
  /\ th[t].route = "/chat"
  /\ th[t].errors # <<>>
  /\ Len(th[t].errors) = th[t].attempts
  /\ \A i \in 1..Len(th[t].errors) : th[t].errors[i] = "quota"

\* C8: a chat request that fails because every attempt met a quota error is
\* answered 503; one that fails otherwise is answered 500.
C8_ExhaustionHasItsOwnStatus ==
  \A t \in Threads :
    (th[t].route = "/chat" /\ th[t].pc = "done" /\ th[t].errors # <<>>) =>
      IF AllQuota(t) THEN th[t].status = 503 ELSE th[t].status = 500

\* C9: when every credential fails with a quota error the request makes one
\* attempt per credential, never more, and ends in the exhausted outcome.
C9_OneAttemptPerCredential ==
  \A t \in Threads :
    /\ th[t].attempts <= Len(credentials)
    /\ (AllQuota(t) /\ th[t].attempts = Len(credentials)) =>
         /\ th[t].pc = "done"
         /\ th[t].status = 503

\* C10: a request whose first generation attempt fails with a fatal error
\* makes that one attempt only, leaves the configured credential alone, and
\* ends at once with a failure.
C10_FatalFirstAttemptEndsRequest ==
  \A t \in Threads :
    (th[t].route = "/chat" /\ th[t].errors # <<>> /\ th[t].errors[1] = "fatal") =>
      /\ th[t].attempts = 1
      /\ th[t].pc = "done"
      /\ th[t].status = StatusError
      /\ th[t].body = "error"
      /\ configure_calls = 1
      /\ configured_key = credentials[1]

\* C10 witness: a finished request whose one attempt failed with a fatal error.
C10_Witness ==
  \E t \in Threads :
    /\ th[t].route = "/chat"
    /\ th[t].pc = "done"
    /\ th[t].errors = <<"fatal">>

====
